---- MODULE Spec2Model ----
(***************************************************************************)
(* A model of LUCI's Fit class (src/LUCI/LuciFit.py): the construction of  *)
(* a fit session, the filter-dependent window selection, the constraint    *)
(* builders handed to the SLSQP solver, and the stages of fit().           *)
(*                                                                         *)
(* Python lists are sequences; a Python index i is position i+1 (see At).  *)
(* A Python name that may be unbound (a module global before its first     *)
(* assignment, a closure cell) is a sequence of length 0 or 1.             *)
(***************************************************************************)
EXTENDS Integers, Sequences, FiniteSets, TLC

VARIABLES
    self,         \* the attributes of the Fit session (a record)
    op,           \* the method that has been called on the session
    ret,          \* the value the called method returned
    cons,         \* the constraint list calculate_params hands to minimize
    frames,       \* the closure cells of the builders' frames, after they return
    fit_sol,      \* self.fit_sol: the point the solver returned
    bound_lower,  \* the module global bound_lower (unbound until first assigned)
    bound_upper,  \* the module global bound_upper
    raised,       \* the exception the called method raised, or "none"
    trace,        \* the steps the session has executed, in order
    fit_dict,     \* the dictionary fit() returned
    th,           \* per thread: its session, its position and its locals
    model,        \* the module global model of log_likelihood (a reference)
    heap          \* the arrays log_likelihood created, by creating thread

consVars == <<cons, frames, fit_sol>>
globalVars == <<bound_lower, bound_upper>>
sessionVars == <<raised, trace, fit_dict>>
threadVars == <<th, model, heap>>

vars == <<self, op, ret, cons, frames, fit_sol, bound_lower, bound_upper,
          raised, trace, fit_dict, th, model, heap>>

----------------------------------------------------------------------------
(* Bounds of the model *)

MaxLines == 3

----------------------------------------------------------------------------
(* Python helpers *)

\* list[i] with Python's 0-based index
At(list, i) == list[i + 1]

Range(list) == { list[k] : k \in 1..Len(list) }

\* the least element of a non-empty set of integers or strings of one kind
Unbound == <<>>
Bound(v) == <<v>>

RECURSIVE SortedSeq(_)
\* np.unique on a list of integers: the distinct values in ascending order
SortedSeq(S) ==
    IF S = {} THEN <<>>
    ELSE LET m == CHOOSE a \in S : \A b \in S : a <= b
         IN  <<m>> \o SortedSeq(S \ {m})

np_unique(list) == SortedSeq(Range(list))

RECURSIVE IndsBelow(_, _, _)
\* [i for i, e in enumerate(list) if e == u], restricted to the indices < hi
IndsBelow(list, u, hi) ==
    IF hi = 0 THEN <<>>
    ELSE IndsBelow(list, u, hi - 1)
         \o (IF list[hi] = u THEN <<hi - 1>> ELSE <<>>)

inds_unique(list, u) == IndsBelow(list, u, Len(list))

----------------------------------------------------------------------------
(* The line catalog, Fit.__init__ *)

\* self.line_dict: line name -> rest wavelength, in picometres (656.280 nm)
line_dict ==
    [Halpha |-> 656280, NII6583 |-> 658341, NII6548 |-> 654803,
     SII6716 |-> 671647, SII6731 |-> 673085, OII3726 |-> 372603,
     OII3729 |-> 372882, OIII4959 |-> 495891, OIII5007 |-> 500684,
     Hbeta |-> 486133]

\* the catalog's names in the order Python sorts strings (np.unique on names)
NameOrder ==
    <<"Halpha", "Hbeta", "NII6548", "NII6583", "OII3726", "OII3729",
      "OIII4959", "OIII5007", "SII6716", "SII6731">>

NameRank(name) == CHOOSE k \in 1..Len(NameOrder) : NameOrder[k] = name

----------------------------------------------------------------------------
(* The constraint builders: sigma_constraints, vel_constraints,            *)
(* multiple_component_vel_constraint.  The three share one loop nest:      *)
(*     for unique_ in np.unique(rel):                                      *)
(*         inds_unique = [i for i, e in enumerate(rel) if e == unique_]    *)
(*         if len(inds_unique) > 1:                                        *)
(*             ind_0 = inds_unique[0]                                      *)
(*             for ind_unique in inds_unique[1:]:  <body>                  *)
(* An iteration of <body> is the pair <<ind_0, ind_unique>> it runs with.  *)

\* a variant of GroupIterations whose inner loop runs over every member
GroupIterations_AllMembers(inds) ==
    IF Len(inds) > 1
    THEN [j \in 1..Len(inds) |-> <<inds[1], inds[j]>>]
    ELSE <<>>

\* the iterations of <body> for one group, whose member indices are inds
GroupIterations(inds) ==
    IF Len(inds) > 1
    THEN [j \in 1..(Len(inds) - 1) |-> <<inds[1], inds[j + 1]>>]
    ELSE <<>>

RECURSIVE LoopFrom(_, _, _)
LoopFrom(rel, unique_rels, k) ==
    IF k > Len(unique_rels) THEN <<>>
    ELSE GroupIterations(inds_unique(rel, unique_rels[k]))
         \o LoopFrom(rel, unique_rels, k + 1)

\* every iteration of <body>, in the order the loop nest runs them
LoopIterations(rel) == LoopFrom(rel, np_unique(rel), 1)

\* The builder's frame when it returns: the cells ind_0 and ind_unique hold
\* what the last iteration left in them (unbound if <body> never ran), and
\* expr_dict the last dictionary assigned to that local.
FrameAfter(its, dicts) ==
    [ind_0      |-> IF its = <<>> THEN Unbound ELSE Bound(its[Len(its)][1]),
     ind_unique |-> IF its = <<>> THEN Unbound ELSE Bound(its[Len(its)][2]),
     expr_dict  |-> IF dicts = <<>> THEN Unbound ELSE Bound(dicts[Len(dicts)])]

\* A constraint dictionary {'type': .., 'fun': lambda x: ..}.  The lambda is
\* named by the builder that wrote it; it reads ind_0 and ind_unique from
\* that builder's frame when it is called.  made records the iteration that
\* created the dictionary.
Dict(type, fun, it) == [type |-> type, fun |-> fun, made |-> it]

\* sigma_constraints: <body> appends a dictionary to sigma_dict_list
sigma_constraints(s) ==
    LET its   == LoopIterations(s.sigma_rel)
        dicts == [k \in 1..Len(its) |-> Dict("eq", "sigma", its[k])]
    IN  [list |-> dicts, frame |-> FrameAfter(its, <<>>)]

\* vel_constraints: <body> assigns expr_dict and appends nothing, so the
\* vel_dict_list returned is the empty list it started as
vel_constraints(s) ==
    LET its   == LoopIterations(s.vel_rel)
        dicts == [k \in 1..Len(its) |-> Dict("eq", "vel", its[k])]
    IN  [list |-> <<>>, frame |-> FrameAfter(its, dicts)]

\* multiple_component_vel_constraint: groups are equal line names;
\* <body> assigns expr_dict and appends nothing
multiple_component_vel_constraint(s) ==
    LET ranks == [k \in 1..Len(s.lines) |-> NameRank(s.lines[k])]
        its   == LoopIterations(ranks)
        dicts == [k \in 1..Len(its) |-> Dict("ineq", "multi", its[k])]
    IN  [list |-> <<>>, frame |-> FrameAfter(its, dicts)]

\* The solver calling dictionary c's lambda on the point x, with fr the
\* frames of the builders:
\*   sigma: x[3*ind_0+2] - x[3*ind_unique+2]
\*   multi: x[3*ind_unique+1] - x[3*ind_0+1] - 10
CallFun(c, fr, x) ==
    CASE c.fun = "sigma" ->
            At(x, 3 * fr.sigma.ind_0[1] + 2) - At(x, 3 * fr.sigma.ind_unique[1] + 2)
      [] c.fun = "multi" ->
            At(x, 3 * fr.multi.ind_unique[1] + 1) - At(x, 3 * fr.multi.ind_0[1] + 1) - 10

\* SLSQP's feasibility: an 'eq' function is 0, an 'ineq' function is >= 0
Feasible(cs, fr, x) ==
    \A k \in 1..Len(cs) :
        IF cs[k].type = "eq" THEN CallFun(cs[k], fr, x) = 0
        ELSE CallFun(cs[k], fr, x) >= 0

----------------------------------------------------------------------------
(* calculate_params, as far as the constraints and the solver go *)

\* group ids a caller writes in vel_rel and sigma_rel, e.g. [1, 2, 1]
GroupIds == {1, 2}

\* the line names requested in the constraint runs
ConsLineNames == {"Halpha", "NII6583"}

\* positions (cm-1) and widths the solver's points are drawn from
SolverPositions == {15000, 15010}
SolverWidths == {2, 3}

\* A parameter vector [amp, pos, width] * line_num + [continuum], on the
\* normalized-flux scale, with the positions p and the widths w
ParamVector(p, w) ==
    LET n == Len(p)
    IN  [k \in 1..(3 * n + 1) |->
            IF k = 3 * n + 1 THEN 0
            ELSE LET i == (k - 1) \div 3
                 IN  CASE (k - 1) % 3 = 0 -> 1
                       [] (k - 1) % 3 = 1 -> p[i + 1]
                       [] (k - 1) % 3 = 2 -> w[i + 1]]

SolverPoints(n) ==
    { ParamVector(p, w) : p \in [1..n -> SolverPositions],
                          w \in [1..n -> SolverWidths] }

\* the flux scales fit() stores in self.spectrum_scale before the solve
ConsSpectrumScales == {2}

\* a variant of Rescale that multiplies every entry
Rescale_All(x, line_num, scale) == [k \in 1..Len(x) |-> x[k] * scale]

\* parameters[i*3] *= self.spectrum_scale; parameters[-1] *= self.spectrum_scale
Rescale(x, line_num, scale) ==
    [k \in 1..Len(x) |->
        IF k = Len(x) \/ (k - 1) % 3 = 0 THEN x[k] * scale ELSE x[k]]

ConsSessions ==
    { [lines |-> l, line_num |-> Len(l), vel_rel |-> v, sigma_rel |-> g,
       spectrum_scale |-> c] :
        c \in ConsSpectrumScales,
        l \in UNION { [1..n -> ConsLineNames] : n \in 1..MaxLines },
        v \in UNION { [1..n -> GroupIds] : n \in 1..MaxLines },
        g \in UNION { [1..n -> GroupIds] : n \in 1..MaxLines } }

NoFrame == [ind_0 |-> Unbound, ind_unique |-> Unbound, expr_dict |-> Unbound]
NoFrames == [sigma |-> NoFrame, vel |-> NoFrame]
NoReturn == [list |-> <<>>, frame |-> NoFrame]

\* the runs of a single session have no threads
NoThreads == th = <<>> /\ model = Unbound /\ heap = <<>>

\* a session that passed check_lengths: both group lists as long as lines
ConsInit ==
    /\ self \in { s \in ConsSessions :
                    Len(s.vel_rel) = s.line_num /\ Len(s.sigma_rel) = s.line_num }
    /\ op = "none"
    /\ ret = NoReturn
    /\ cons = <<>>
    /\ frames = NoFrames
    /\ fit_sol = <<>>
    /\ bound_lower = Unbound
    /\ bound_upper = Unbound
    /\ raised = "none"
    /\ trace = <<>>
    /\ fit_dict = <<>>
    /\ NoThreads

\* a caller calling self.sigma_constraints()
CallSigmaConstraints ==
    /\ op = "none"
    /\ op' = "sigma_constraints"
    /\ ret' = sigma_constraints(self)
    /\ UNCHANGED <<self, consVars, globalVars, sessionVars, threadVars>>

\* a caller calling self.vel_constraints()
CallVelConstraints ==
    /\ op = "none"
    /\ op' = "vel_constraints"
    /\ ret' = vel_constraints(self)
    /\ UNCHANGED <<self, consVars, globalVars, sessionVars, threadVars>>

\* a caller calling self.multiple_component_vel_constraint()
CallMultipleComponentVelConstraint ==
    /\ op = "none"
    /\ op' = "multiple_component_vel_constraint"
    /\ ret' = multiple_component_vel_constraint(self)
    /\ UNCHANGED <<self, consVars, globalVars, sessionVars, threadVars>>

\* calculate_params on session s when minimize returns the point x:
\* cons = sigma_cons + vel_cons (the multiple-component builder is commented
\* out of it); the amplitudes and the continuum of x are rescaled and the
\* result stored in self.fit_sol.  feasible tells whether x is feasible for
\* cons as the solver evaluates it.
CalculateParams(s, x) ==
    LET sigma_cons == sigma_constraints(s)
        vel_cons   == vel_constraints(s)
        cons_      == sigma_cons.list \o vel_cons.list
        fr         == [sigma |-> sigma_cons.frame, vel |-> vel_cons.frame]
    IN  [feasible |-> Feasible(cons_, fr, x),
         cons     |-> cons_,
         frames   |-> fr,
         fit_sol  |-> Rescale(x, s.line_num, s.spectrum_scale)]

\* a caller calling self.calculate_params(); minimize returns a feasible point
calculate_params ==
    /\ op = "none"
    /\ \E x \in SolverPoints(self.line_num) :
           LET r == CalculateParams(self, x)
           IN  /\ r.feasible
               /\ cons' = r.cons
               /\ frames' = r.frames
               /\ fit_sol' = r.fit_sol
    /\ op' = "calculate_params"
    /\ ret' = NoReturn
    /\ UNCHANGED <<self, globalVars, sessionVars, threadVars>>

ConsNext ==
    \/ CallSigmaConstraints
    \/ CallVelConstraints
    \/ CallMultipleComponentVelConstraint
    \/ calculate_params

SpecCons == ConsInit /\ [][ConsNext]_vars

----------------------------------------------------------------------------
(* Window selection: restrict_wavelength and calculate_noise *)

Abs(a) == IF a < 0 THEN -a ELSE a

\* np.argmax(np.abs(np.array(axis) - b)): the first index of the largest distance
np_argmax_abs(axis, b) ==
    CHOOSE i \in 0..(Len(axis) - 1) :
        /\ \A j \in 0..(Len(axis) - 1) : Abs(At(axis, i) - b) >= Abs(At(axis, j) - b)
        /\ \A j \in 0..(i - 1) : Abs(At(axis, j) - b) < Abs(At(axis, i) - b)

\* np.argmin(np.abs(np.array(axis) - b)): the first index of the least distance
np_argmin_abs(axis, b) ==
    CHOOSE i \in 0..(Len(axis) - 1) :
        /\ \A j \in 0..(Len(axis) - 1) : Abs(At(axis, i) - b) <= Abs(At(axis, j) - b)
        /\ \A j \in 0..(i - 1) : Abs(At(axis, j) - b) > Abs(At(axis, i) - b)

\* list[lo:hi] for 0 <= lo, hi <= len(list)
Slice(list, lo, hi) == IF hi <= lo THEN <<>> ELSE SubSeq(list, lo + 1, hi)

\* the if/elif chain of restrict_wavelength: the bounds it assigns to the
\* globals, or nothing in the else branch, which only prints
RestrictBounds(filter, lines) ==
    CASE filter = "SN3" -> Bound(<<14500, 15400>>)
      [] filter = "SN2" -> Bound(<<19500, 20750>>)
      [] filter = "SN1" -> Bound(<<26000, 27400>>)
      [] filter = "C4" /\ "Halpha" \in Range(lines) -> Bound(<<14500, 15400>>)
      [] OTHER -> Unbound

\* a variant of NoiseBounds that takes the noise inside the fit window
NoiseBounds_InBand(filter, lines) == RestrictBounds(filter, lines)

\* the if/elif chain of calculate_noise
NoiseBounds(filter, lines) ==
    CASE filter = "SN3" -> Bound(<<14300, 14500>>)
      [] filter = "SN2" -> Bound(<<18600, 19000>>)
      [] filter = "SN1" -> Bound(<<25300, 25700>>)
      [] filter = "C4" /\ "Halpha" \in Range(lines) -> Bound(<<14300, 14500>>)
      [] OTHER -> Unbound

\* the module globals after the if/elif chain chose the bounds nb
AssignGlobals(g, nb) ==
    IF nb = Unbound THEN g
    ELSE [bound_lower |-> Bound(nb[1][1]), bound_upper |-> Bound(nb[1][2])]

\* spectrum / np.max(spectrum): the samples and the maximum they are divided by
np_max(list) == CHOOSE m \in Range(list) : \A v \in Range(list) : v <= m
Normalized(spectrum) == [num |-> spectrum, den |-> np_max(spectrum)]
SliceNormalized(sn, lo, hi) == [num |-> Slice(sn.num, lo, hi), den |-> sn.den]

\* np.nanstd(samples), kept as the samples it is taken over;
\* self.noise = 1e-2 is DefaultNoise
DefaultNoise == [value |-> "1e-2", of |-> <<>>]
np_nanstd(samples) == [value |-> "nanstd", of |-> samples]

\* restrict_wavelength on session s with the globals g: reading a global
\* that was never assigned raises NameError
restrict_wavelength(s, g) ==
    LET g1 == AssignGlobals(g, RestrictBounds(s.filter, s.lines))
    IN  IF g1.bound_lower = Unbound \/ g1.bound_upper = Unbound
        THEN [raised |-> "NameError", self |-> s, globals |-> g1, ret |-> <<>>]
        ELSE LET min_ == np_argmin_abs(s.axis, g1.bound_lower[1])
                 max_ == np_argmin_abs(s.axis, g1.bound_upper[1])
             IN  [raised |-> "none",
                  self |-> [s EXCEPT
                      !.spectrum_restricted =
                          SliceNormalized(s.spectrum_normalized, min_, max_),
                      !.axis_restricted = Slice(s.axis, min_, max_)],
                  globals |-> g1,
                  ret |-> <<min_, max_>>]

\* calculate_noise on session s with the globals g; ret is the index range
\* of the samples the standard deviation is taken over
calculate_noise(s, g) ==
    LET g1 == AssignGlobals(g, NoiseBounds(s.filter, s.lines))
    IN  IF g1.bound_lower = Unbound \/ g1.bound_upper = Unbound
        THEN [raised |-> "NameError", self |-> s, globals |-> g1, ret |-> <<>>]
        ELSE LET min_ == np_argmin_abs(s.axis, g1.bound_lower[1])
                 max_ == np_argmin_abs(s.axis, g1.bound_upper[1])
             IN  [raised |-> "none",
                  self |-> [s EXCEPT
                      !.noise = np_nanstd(Slice(s.spectrum_clean.num, min_, max_))],
                  globals |-> g1,
                  ret |-> <<min_, max_>>]

Globals == [bound_lower |-> bound_lower, bound_upper |-> bound_upper]

----------------------------------------------------------------------------
(* Runs of the window selection on its own *)

MaxAxisLen == 4

\* wavenumbers (cm-1) the axes of the window runs are drawn from
AxisGrid ==
    {14300, 14400, 14500, 15000, 15400, 18600, 19000, 19500, 20750,
     25300, 25700, 26000, 27400}

\* the strictly increasing axes of 1..MaxAxisLen samples over AxisGrid
Axes ==
    { SortedSeq(S) : S \in { T \in SUBSET AxisGrid :
                                 Cardinality(T) \in 1..MaxAxisLen } }

\* the spectrum of the window runs: the ramp 1, 2, .., n (distinct samples)
Ramp(n) == [i \in 1..n |-> i]

Filters == {"SN1", "SN2", "SN3", "C4", "SN4"}
WindowLines == {<<"Halpha">>, <<"NII6583">>}

WindowSession(f, l, a) ==
    [filter |-> f, lines |-> l, axis |-> a,
     spectrum |-> Ramp(Len(a)),
     spectrum_clean |-> Normalized(Ramp(Len(a))),
     spectrum_normalized |-> Normalized(Ramp(Len(a))),
     spectrum_restricted |-> [num |-> <<>>, den |-> 1],
     axis_restricted |-> <<>>,
     noise |-> DefaultNoise]

\* a process in which an earlier session of filter f ran, or none did
GlobalsLeft ==
    {[bound_lower |-> Unbound, bound_upper |-> Unbound]}
    \cup { AssignGlobals([bound_lower |-> Unbound, bound_upper |-> Unbound], nb) :
             nb \in { RestrictBounds(f, <<"Halpha">>) : f \in Filters }
                    \cup { NoiseBounds(f, <<"Halpha">>) : f \in Filters } }

WindowInit ==
    /\ self \in { WindowSession(f, l, a) : f \in Filters, l \in WindowLines, a \in Axes }
    /\ op = "none"
    /\ ret = <<>>
    /\ \E g \in GlobalsLeft :
           bound_lower = g.bound_lower /\ bound_upper = g.bound_upper
    /\ raised = "none"
    /\ cons = <<>> /\ frames = NoFrames /\ fit_sol = <<>>
    /\ trace = <<>> /\ fit_dict = <<>>
    /\ NoThreads

\* a caller calling self.restrict_wavelength()
CallRestrictWavelength ==
    /\ op = "none"
    /\ LET r == restrict_wavelength(self, Globals)
       IN  /\ self' = r.self
           /\ bound_lower' = r.globals.bound_lower
           /\ bound_upper' = r.globals.bound_upper
           /\ raised' = r.raised
           /\ ret' = r.ret
    /\ op' = "restrict_wavelength"
    /\ UNCHANGED <<consVars, trace, fit_dict, threadVars>>

\* a caller calling self.calculate_noise()
CallCalculateNoise ==
    /\ op = "none"
    /\ LET r == calculate_noise(self, Globals)
       IN  /\ self' = r.self
           /\ bound_lower' = r.globals.bound_lower
           /\ bound_upper' = r.globals.bound_upper
           /\ raised' = r.raised
           /\ ret' = r.ret
    /\ op' = "calculate_noise"
    /\ UNCHANGED <<consVars, trace, fit_dict, threadVars>>

WindowNext == CallRestrictWavelength \/ CallCalculateNoise

SpecWindow == WindowInit /\ [][WindowNext]_vars

----------------------------------------------------------------------------
(* Fit.__init__.  A run of the constructor is a record m: the attributes    *)
(* assigned so far (self), the module globals, the exception raised or      *)
(* "none", and the steps executed.  A step of a run that has raised does    *)
(* nothing.  The runs pass trans_filter=None, so line 93 is not reached.    *)

\* a step of the trace: the fit() run it belongs to (0: the constructor),
\* the method that made the call, and the step
Step(run, by, step) == [run |-> run, by |-> by, step |-> step]

Ran(m, run, by, step) == [m EXCEPT !.trace = Append(@, Step(run, by, step))]

\* lines 78-91: the catalog, the arguments, spectrum_clean; args keeps the
\* arguments the constructor was called with
InitAttributes(a) ==
    [args |-> a,
     spectrum |-> a.spectrum,
     spectrum_clean |-> Normalized(a.spectrum),
     axis |-> a.axis,
     model_type |-> a.model_type,
     lines |-> a.lines,
     line_num |-> Len(a.lines),
     filter |-> a.filter,
     spectrum_normalized |-> [num |-> <<>>, den |-> 1],
     spectrum_restricted |-> [num |-> <<>>, den |-> 1],
     axis_restricted |-> <<>>,
     spectrum_restricted_norm |-> [num |-> <<>>, den |-> 1],
     correction_factor |-> "unset",
     noise |-> DefaultNoise,
     sigma_rel |-> <<>>,
     vel_rel |-> <<>>,
     ML_model |-> "unset",
     bayes_bool |-> FALSE,
     spectrum_scale |-> 0]

\* lines 94-97
InitNormalize(m) ==
    IF m.raised # "none" THEN m
    ELSE Ran([m EXCEPT !.self.spectrum_normalized = Normalized(m.self.spectrum)],
             0, "__init__", "spectrum_normalized")

\* line 98
InitRestrict(m) ==
    IF m.raised # "none" THEN m
    ELSE LET r == restrict_wavelength(m.self, m.globals)
         IN  Ran([m EXCEPT !.self = r.self, !.globals = r.globals,
                           !.raised = r.raised],
                 0, "__init__", "restrict_wavelength")

\* line 100: np.max of an empty array raises ValueError
InitRestrictedNorm(m) ==
    IF m.raised # "none" THEN m
    ELSE IF m.self.spectrum_restricted.num = <<>>
         THEN Ran([m EXCEPT !.raised = "ValueError"],
                  0, "__init__", "spectrum_restricted_norm")
         ELSE Ran([m EXCEPT !.self.spectrum_restricted_norm =
                       [num |-> m.self.spectrum_restricted.num,
                        den |-> np_max(m.self.spectrum_restricted.num)]],
                  0, "__init__", "spectrum_restricted_norm")

\* lines 103-110: 1/cos(theta), kept as a name
InitCorrection(m) ==
    IF m.raised # "none" THEN m
    ELSE Ran([m EXCEPT !.self.correction_factor = "1/cos_theta"],
             0, "__init__", "calculate_correction")

\* lines 114-115
InitNoise(m) ==
    IF m.raised # "none" THEN m
    ELSE LET r == calculate_noise(m.self, m.globals)
         IN  Ran([m EXCEPT !.self = r.self, !.globals = r.globals,
                           !.raised = r.raised],
                 0, "__init__", "calculate_noise")

\* lines 116-138
InitOptions(m, a) ==
    IF m.raised # "none" THEN m
    ELSE Ran([m EXCEPT !.self.sigma_rel = a.sigma_rel,
                       !.self.vel_rel = a.vel_rel,
                       !.self.ML_model = a.ML_model,
                       !.self.bayes_bool = a.bayes_bool],
             0, "__init__", "calc_sinc_width")

\* check_lines: set(self.lines).issubset(self.line_dict)
check_lines(m) ==
    IF m.raised # "none" THEN m
    ELSE Ran([m EXCEPT !.raised =
                  IF Range(m.self.lines) \subseteq DOMAIN line_dict
                  THEN "none" ELSE "Exception(check_lines)"],
             0, "__init__", "check_lines")

available_functions == {"gaussian", "sinc", "sincgauss"}

\* check_fitting_model: self.model_type in self.available_functions
check_fitting_model(m) ==
    IF m.raised # "none" THEN m
    ELSE Ran([m EXCEPT !.raised =
                  IF m.self.model_type \in available_functions
                  THEN "none" ELSE "Exception(check_fitting_model)"],
             0, "__init__", "check_fitting_model")

\* a variant of check_lengths that omits the elif on sigma_rel
check_lengths_VelOnly(m) ==
    IF m.raised # "none" THEN m
    ELSE Ran([m EXCEPT !.raised =
                  IF Len(m.self.vel_rel) # Len(m.self.lines)
                  THEN "Exception(check_lengths)"
                  ELSE "none"],
             0, "__init__", "check_lengths")

\* check_lengths: len(vel_rel) != len(lines), elif len(sigma_rel) != len(lines)
check_lengths(m) ==
    IF m.raised # "none" THEN m
    ELSE Ran([m EXCEPT !.raised =
                  IF Len(m.self.vel_rel) # Len(m.self.lines)
                  THEN "Exception(check_lengths)"
                  ELSE IF Len(m.self.sigma_rel) # Len(m.self.lines)
                  THEN "Exception(check_lengths)"
                  ELSE "none"],
             0, "__init__", "check_lengths")

\* Fit(spectrum, axis, .., model_type, lines, vel_rel, sigma_rel, ML_model,
\*     filter=.., bayes_bool=..) in a process whose globals are g
Fit__init__(a, g) ==
    LET m0 == [self |-> InitAttributes(a), globals |-> g, raised |-> "none",
               trace |-> <<Step(0, "__init__", "spectrum_clean")>>]
    IN  check_lengths(check_fitting_model(check_lines(
            InitOptions(InitNoise(InitCorrection(InitRestrictedNorm(
                InitRestrict(InitNormalize(m0))))), a))))

----------------------------------------------------------------------------
(* fit() *)

\* lines 503-509: with an ML model, interpolate_spectrum and
\* estimate_priors_ML; without, only the flux scale is stored
FitPrior(m, k) ==
    LET scaled == [m EXCEPT !.self.spectrum_scale = np_max(m.self.spectrum)]
    IN  IF m.self.ML_model # "None"
        THEN Ran(Ran(scaled, k, "fit", "interpolate_spectrum"),
                 k, "fit", "estimate_priors_ML")
        ELSE scaled

\* a variant of FitBayes that runs the refinement whatever bayes_bool is
FitBayes_Always(m, k) ==
    Ran(m, k, "fit", "fit_Bayes")

\* lines 513-514
FitBayes(m, k) ==
    IF m.self.bayes_bool = TRUE THEN Ran(m, k, "fit", "fit_Bayes") ELSE m

\* calc_chisquare (line 516): it calls restrict_wavelength again for the
\* window indices, and returns chi2 and chi2dof
calc_chisquare(m, k) ==
    LET r == restrict_wavelength(m.self, m.globals)
    IN  Ran(Ran([m EXCEPT !.self = r.self, !.globals = r.globals,
                          !.raised = r.raised],
                k, "fit", "calc_chisquare"),
            k, "calc_chisquare", "restrict_wavelength")

\* lines 535-541: the keys of fit_dict and the quantity stored under each
FitDict ==
    [fit_sol |-> "self.fit_sol", fit_uncertainties |-> "self.uncertainties",
     fit_vector |-> "self.fit_vector", fit_axis |-> "self.axis",
     amplitudes |-> "ampls", fluxes |-> "fluxes", flux_errors |-> "flux_errors",
     chi2 |-> "red_chi_sqr",
     velocities |-> "vels", sigmas |-> "sigmas",
     vels_errors |-> "vels_errors", sigmas_errors |-> "sigmas_errors",
     axis_step |-> "self.axis_step", corr |-> "self.correction_factor",
     continuum |-> "self.fit_sol[-1]", scale |-> "self.spectrum_scale"]

\* the k-th run of fit() on a constructed session: the steps in the order
\* of lines 503-542
FitRun(m, k) ==
    LET m1 == FitPrior(m, k)
        m2 == Ran(m1, k, "fit", "calculate_params")
        m3 == FitBayes(m2, k)
        m4 == calc_chisquare(m3, k)
    IN  IF m4.raised # "none" THEN m4 ELSE Ran(m4, k, "fit", "fit_dict")

----------------------------------------------------------------------------
(* Sessions of one process, one after the other *)

MaxFits == 2

SessionAxes ==
    {<<14300, 14500, 15000, 15400>>, <<18600, 19000, 19500, 20750>>, <<14500>>}

SessionLines ==
    {<<"Halpha">>, <<"NII6583">>, <<"Halpha", "NII6583">>, <<"Halpha", "Hgamma">>}

SessionArgs ==
    { [spectrum |-> Ramp(Len(a)), axis |-> a, model_type |-> mt, lines |-> l,
       vel_rel |-> v, sigma_rel |-> g, ML_model |-> ml, filter |-> f,
       bayes_bool |-> b] :
        a \in SessionAxes,
        mt \in available_functions \cup {"lorentzian"},
        l \in SessionLines,
        v \in {<<1>>, <<1, 1>>},
        g \in {<<1>>, <<1, 1>>},
        ml \in {"None", "keras_model"},
        f \in Filters,
        b \in BOOLEAN }

\* a fresh interpreter: the module globals are unbound, no session exists
SessionInit ==
    /\ self = <<>>
    /\ op = "none"
    /\ ret = <<>>
    /\ bound_lower = Unbound
    /\ bound_upper = Unbound
    /\ raised = "none"
    /\ trace = <<>>
    /\ fit_dict = <<>>
    /\ cons = <<>> /\ frames = NoFrames /\ fit_sol = <<>>
    /\ NoThreads

\* a caller constructing a session
Construct ==
    /\ op = "none"
    /\ \E a \in SessionArgs :
           LET m == Fit__init__(a, Globals)
           IN  /\ self' = m.self
               /\ bound_lower' = m.globals.bound_lower
               /\ bound_upper' = m.globals.bound_upper
               /\ raised' = m.raised
               /\ trace' = m.trace
    /\ op' = "__init__"
    /\ UNCHANGED <<ret, consVars, fit_dict, threadVars>>

LastRun == trace[Len(trace)].run

\* a caller calling fit() on the session it constructed: minimize returns
\* the feasible point x, and the sampler of fit_Bayes, if it runs, the
\* medians y
Fit ==
    /\ op \in {"__init__", "fit"}
    /\ raised = "none"
    /\ LastRun < MaxFits
    /\ LET m == FitRun([self |-> self, globals |-> Globals,
                        raised |-> "none", trace |-> trace], LastRun + 1)
       IN  /\ self' = m.self
           /\ bound_lower' = m.globals.bound_lower
           /\ bound_upper' = m.globals.bound_upper
           /\ raised' = m.raised
           /\ trace' = m.trace
           /\ fit_dict' = IF m.raised = "none" THEN FitDict ELSE <<>>
           /\ \E x \in SolverPoints(self.line_num) :
                  LET r == CalculateParams(m.self, x)
                  IN  /\ r.feasible
                      /\ cons' = r.cons
                      /\ frames' = r.frames
                      /\ \E y \in IF self.bayes_bool THEN SolverPoints(self.line_num)
                                  ELSE {x} :
                             fit_sol' = Rescale(y, self.line_num, m.self.spectrum_scale)
    /\ op' = "fit"
    /\ UNCHANGED <<ret, threadVars>>

\* the caller drops the session (or the constructor raised and left none);
\* the module globals stay as the session left them
Discard ==
    /\ op \in {"__init__", "fit"}
    /\ op' = "none"
    /\ self' = <<>>
    /\ raised' = "none"
    /\ trace' = <<>>
    /\ fit_dict' = <<>>
    /\ cons' = <<>> /\ frames' = NoFrames /\ fit_sol' = <<>>
    /\ UNCHANGED <<ret, globalVars, threadVars>>

SessionNext == Construct \/ Fit \/ Discard

SpecSession == SessionInit /\ [][SessionNext]_vars

----------------------------------------------------------------------------
(* Claims about the constraint builders *)

\* The pairs <<first member, extra member>> (Python indices) of the groups
\* of rel that have more than one member
ExpectedPairs(rel) ==
    { pr \in (0..(Len(rel) - 1)) \X (0..(Len(rel) - 1)) :
        /\ pr[1] < pr[2]
        /\ At(rel, pr[1]) = At(rel, pr[2])
        /\ \A m \in 0..(pr[1] - 1) : At(rel, m) # At(rel, pr[1]) }

GroupSize(rel, u) == Cardinality({ k \in 1..Len(rel) : rel[k] = u })

RECURSIVE SumExtra(_, _)
\* the sum over the groups U of rel of (group size - 1)
SumExtra(rel, U) ==
    IF U = {} THEN 0
    ELSE LET u == CHOOSE a \in U : TRUE
         IN  (GroupSize(rel, u) - 1) + SumExtra(rel, U \ {u})

LineRanks(s) == [k \in 1..Len(s.lines) |-> NameRank(s.lines[k])]

\* C1: the constraint list calculate_params hands to the solver holds, for
\* every velocity group with more than one member and every extra member of
\* it, an equality constraint on the position parameters (3i+1) of that
\* member and of the group's first member.
C1_VelocityEqualitiesHanded ==
    op = "calculate_params" =>
        \A pr \in ExpectedPairs(self.vel_rel) :
            \E k \in 1..Len(cons) :
                cons[k].type = "eq" /\ cons[k].fun = "vel" /\ cons[k].made = pr

\* C2: when a line name is requested twice, the solve runs subject to an
\* inequality constraint on the two components, and the accepted point has
\* pos[first] - pos[second] >= 10.
C2_ComponentOrderingEnforced ==
    op = "calculate_params" =>
        \A pr \in ExpectedPairs(LineRanks(self)) :
            /\ \E k \in 1..Len(cons) :
                   cons[k].type = "ineq" /\ cons[k].made = pr
            /\ At(fit_sol, 3 * pr[1] + 1) - At(fit_sol, 3 * pr[2] + 1) >= 10

SigmaDicts(list) == { k \in 1..Len(list) : list[k].fun = "sigma" }

CountIsSumExtra(list, rel) ==
    /\ Cardinality(SigmaDicts(list)) = SumExtra(rel, Range(rel))
    /\ \A k \in SigmaDicts(list) : list[k].type = "eq"
    /\ \A u \in Range(rel) :
           Cardinality({ k \in SigmaDicts(list) : At(rel, list[k].made[1]) = u })
               = GroupSize(rel, u) - 1

\* C3: sigma_constraints returns exactly the sum over the distinct groups of
\* (group size - 1) equality constraints: none for a group with a single
\* member, one per extra member for a larger group.  The same holds of the
\* width constraints calculate_params hands to the solver.
C3_SigmaConstraintCount ==
    /\ op = "sigma_constraints" =>
           /\ Len(ret.list) = Cardinality(SigmaDicts(ret.list))
           /\ CountIsSumExtra(ret.list, self.sigma_rel)
    /\ op = "calculate_params" => CountIsSumExtra(cons, self.sigma_rel)

\* C3's case: a list with a single-member group and a larger group
C3_Witness ==
    /\ op = "sigma_constraints"
    /\ Len(ret.list) = 1
    /\ \E u \in Range(self.sigma_rel) : GroupSize(self.sigma_rel, u) = 1
    /\ \E u \in Range(self.sigma_rel) : GroupSize(self.sigma_rel, u) = 2

\* C4: every width constraint handed to the solver, called on any point after
\* the builder has returned, compares the width parameters of the index pair
\* it was created for.
C4_OwnIndexPair ==
    op = "calculate_params" =>
        \A k \in SigmaDicts(cons) :
            \A x \in SolverPoints(self.line_num) :
                CallFun(cons[k], frames, x)
                    = At(x, 3 * cons[k].made[1] + 2) - At(x, 3 * cons[k].made[2] + 2)

----------------------------------------------------------------------------
(* Claims about the window selection *)

Supported(s) == RestrictBounds(s.filter, s.lines) # Unbound

\* the samples of the axis inside the filter's window [lower, upper]
SamplesInWindow(s) ==
    LET b == RestrictBounds(s.filter, s.lines)[1]
    IN  { k \in 1..Len(s.axis) : b[1] <= s.axis[k] /\ s.axis[k] <= b[2] }

\* C7 as claimed: for every supported filter and every strictly increasing
\* axis, restrict_wavelength returns lo < hi with both indices inside the
\* axis, and the restricted spectrum and axis are not empty.
C7_WindowNeverEmpty ==
    (op = "restrict_wavelength" /\ Supported(self)) =>
        /\ raised = "none"
        /\ ret[1] < ret[2]
        /\ 0 <= ret[1] /\ ret[2] <= Len(self.axis) - 1
        /\ self.spectrum_restricted.num # <<>>
        /\ self.axis_restricted # <<>>

\* C7 as amended: for every supported filter and every strictly increasing
\* axis, restrict_wavelength returns 0 <= lo <= hi <= len(axis)-1 and the
\* restricted spectrum and axis have hi - lo samples; lo < hi, so that they
\* are not empty, whenever at least two samples of the axis lie inside the
\* filter's window [lower, upper].
C7_WindowWithinAxis ==
    (op = "restrict_wavelength" /\ Supported(self)) =>
        /\ raised = "none"
        /\ 0 <= ret[1] /\ ret[1] <= ret[2] /\ ret[2] <= Len(self.axis) - 1
        /\ Len(self.spectrum_restricted.num) = ret[2] - ret[1]
        /\ Len(self.axis_restricted) = ret[2] - ret[1]
        /\ Cardinality(SamplesInWindow(self)) >= 2 =>
               /\ ret[1] < ret[2]
               /\ self.spectrum_restricted.num # <<>>
               /\ self.axis_restricted # <<>>

\* C7's case: a supported filter on an axis with two samples in its window
C7_Witness ==
    /\ op = "restrict_wavelength"
    /\ Supported(self)
    /\ Cardinality(SamplesInWindow(self)) >= 2
    /\ Len(self.axis) > Cardinality(SamplesInWindow(self))
    /\ ret[1] < ret[2]

----------------------------------------------------------------------------
(* Claims about the construction of a session and the stages of fit() *)

\* C5: constructing a session with an unrecognised filter name ends in an
\* error outcome, and neither restrict_wavelength nor calculate_noise
\* returns a window or a noise value (computed from the bounds of another
\* filter or of an earlier call).
C5_UnsupportedFilterRejected ==
    (op = "__init__" /\ ~Supported(self)) =>
        /\ raised # "none"
        /\ self.axis_restricted = <<>>
        /\ self.noise = DefaultNoise
        /\ \A i \in 1..Len(trace) :
               trace[i].step \notin {"spectrum_restricted_norm", "calculate_noise"}

LinesInCatalog(a) == \A k \in 1..Len(a.lines) : a.lines[k] \in DOMAIN line_dict
ModelSupported(a) == a.model_type \in {"gaussian", "sinc", "sincgauss"}
LengthsMatch(a) ==
    Len(a.vel_rel) = Len(a.lines) /\ Len(a.sigma_rel) = Len(a.lines)

CheckExceptions ==
    {"Exception(check_lines)", "Exception(check_fitting_model)",
     "Exception(check_lengths)"}

\* C6: construction fails whenever a requested line is not in the catalog,
\* or the model type is not gaussian, sinc or sincgauss, or a group list is
\* not as long as the line list; and none of the three checks fails when
\* all lines are in the catalog, the model type is supported and both group
\* lists are as long as the line list.
C6_ValidationOutcome ==
    op = "__init__" =>
        /\ ~(LinesInCatalog(self.args) /\ ModelSupported(self.args)
             /\ LengthsMatch(self.args)) => raised # "none"
        /\ (LinesInCatalog(self.args) /\ ModelSupported(self.args)
             /\ LengthsMatch(self.args)) => raised \notin CheckExceptions
        /\ raised = "Exception(check_lines)" => ~LinesInCatalog(self.args)
        /\ raised = "Exception(check_fitting_model)" => ~ModelSupported(self.args)
        /\ raised = "Exception(check_lengths)" => ~LengthsMatch(self.args)

\* C6's case: the only fault is a width-group list of the wrong length, and
\* check_lengths has raised
C6_Witness ==
    /\ op = "__init__"
    /\ LinesInCatalog(self.args) /\ ModelSupported(self.args)
    /\ Len(self.args.vel_rel) = Len(self.args.lines)
    /\ Len(self.args.sigma_rel) # Len(self.args.lines)
    /\ raised = "Exception(check_lengths)"

\* the quantities the FitResult promises
PromisedQuantities ==
    {"self.fit_sol", "self.uncertainties", "self.fit_vector",
     "fluxes", "flux_errors", "vels", "vels_errors", "sigmas", "sigmas_errors",
     "self.noise", "self.correction_factor", "self.fit_sol[-1]",
     "chi_sqr", "red_chi_sqr"}

\* C8: the record fit() returns carries every promised quantity: the
\* parameter vector, its uncertainties, the model curve, per-line flux,
\* velocity and broadening with errors, the noise estimate, the correction
\* factor, the continuum, the chi-square and the reduced chi-square.
C8_ResultCarriesPromisedFields ==
    (op = "fit" /\ raised = "none") =>
        \A q \in PromisedQuantities :
            \E key \in DOMAIN fit_dict : fit_dict[key] = q

\* the stage a step belongs to, by its name: 1 preprocessing, 2 prior
\* estimation, 3 optimization, 4 Bayesian refinement, 5 result assembly
Stage(step) ==
    CASE step \in {"interpolate_spectrum", "estimate_priors_ML"} -> 2
      [] step = "calculate_params" -> 3
      [] step = "fit_Bayes" -> 4
      [] step \in {"calc_chisquare", "fit_dict"} -> 5
      [] OTHER -> 1

\* the same, with the window lookup calc_chisquare makes counted as part of
\* the result assembly
StageOfCall(e) ==
    IF e.step = "restrict_wavelength" /\ e.by = "calc_chisquare" THEN 5
    ELSE Stage(e.step)

StepsOfRun(k) == { i \in 1..Len(trace) : trace[i].run = k }

\* what C9 says of the optional stages and of the order of the runs
OptionalStagesAsConfigured ==
    /\ \A i, j \in 1..Len(trace) : i < j => trace[i].run <= trace[j].run
    /\ \A i \in StepsOfRun(0) : Stage(trace[i].step) = 1
    /\ \A k \in 1..LastRun :
           /\ (\E i \in StepsOfRun(k) : trace[i].step = "interpolate_spectrum")
                  <=> self.ML_model # "None"
           /\ (\E i \in StepsOfRun(k) : trace[i].step = "estimate_priors_ML")
                  <=> self.ML_model # "None"
           /\ Cardinality({ i \in StepsOfRun(k) : Stage(trace[i].step) = 3 }) = 1
           /\ (\E i \in StepsOfRun(k) : trace[i].step = "fit_Bayes")
                  <=> self.bayes_bool
           /\ trace[Len(trace)].step = "fit_dict"

\* C9 as claimed: every run of fit() executes preprocessing (at
\* construction), prior estimation (iff an ML model was supplied),
\* optimization, Bayesian refinement (iff the flag is set) and result
\* assembly in this order, and no preprocessing step is executed again once
\* optimization has started.
C9_StagesInOrder ==
    (op = "fit" /\ raised = "none") =>
        /\ OptionalStagesAsConfigured
        /\ \A k \in 1..LastRun : \A i, j \in StepsOfRun(k) :
               i < j => Stage(trace[i].step) <= Stage(trace[j].step)
        /\ \A i, j \in 1..Len(trace) :
               (i < j /\ Stage(trace[i].step) = 3) => Stage(trace[j].step) # 1

\* C9 as amended: the stages run in the claimed order, and the only
\* preprocessing step executed again once optimization has started is
\* restrict_wavelength, which calc_chisquare calls once in every run of
\* fit(), during the result assembly.
C9_StagesInOrderButWindowLookup ==
    (op = "fit" /\ raised = "none") =>
        /\ OptionalStagesAsConfigured
        /\ \A k \in 1..LastRun : \A i, j \in StepsOfRun(k) :
               i < j => StageOfCall(trace[i]) <= StageOfCall(trace[j])
        /\ \A i, j \in 1..Len(trace) :
               (i < j /\ Stage(trace[i].step) = 3 /\ Stage(trace[j].step) = 1)
                   => /\ trace[j].step = "restrict_wavelength"
                      /\ trace[j].by = "calc_chisquare"
                      /\ trace[j - 1].step = "calc_chisquare"
        /\ \A k \in 1..LastRun :
               Cardinality({ i \in StepsOfRun(k) :
                               trace[i].step = "restrict_wavelength" }) = 1

\* C9's case: a second run of fit() with an ML model and the Bayesian
\* refinement, after which the window lookup of calc_chisquare has run
C9_Witness ==
    /\ op = "fit" /\ raised = "none"
    /\ LastRun = 2
    /\ self.ML_model # "None" /\ self.bayes_bool
    /\ \E i \in StepsOfRun(2) :
           trace[i].step = "restrict_wavelength" /\ trace[i].by = "calc_chisquare"

----------------------------------------------------------------------------
(* Two sessions on two threads of one interpreter.  A thread runs, for its  *)
(* own session, the window selection of the constructor (lines 98-100),     *)
(* calculate_noise (line 115), one call of log_likelihood and the window    *)
(* lookup of calc_chisquare (line 622).  The interpreter may switch threads *)
(* between any two accesses to a module global, so each access is a step:   *)
(*   store_lower, store_upper   the assignments of the if/elif chain        *)
(*   load_lower                 min_ = np.argmin(.. - bound_lower)          *)
(*   load_upper                 max_ = np.argmin(.. - bound_upper), and the *)
(*                              statements up to the next global access     *)
(*   store_model                model = <shape>.evaluate(..)   (a new array)*)
(*   load_model, iadd_model     model += theta[-1]: the array the global    *)
(*                              refers to is loaded, then added to in place *)
(*                              and stored back                             *)
(*   return_likelihood          the return expression reads model           *)

Threads == {1, 2}

Program ==
    <<[fn |-> "restrict_wavelength", by |-> "__init__", step |-> "store_lower"],
      [fn |-> "restrict_wavelength", by |-> "__init__", step |-> "store_upper"],
      [fn |-> "restrict_wavelength", by |-> "__init__", step |-> "load_lower"],
      [fn |-> "restrict_wavelength", by |-> "__init__", step |-> "load_upper"],
      [fn |-> "calculate_noise", by |-> "__init__", step |-> "store_lower"],
      [fn |-> "calculate_noise", by |-> "__init__", step |-> "store_upper"],
      [fn |-> "calculate_noise", by |-> "__init__", step |-> "load_lower"],
      [fn |-> "calculate_noise", by |-> "__init__", step |-> "load_upper"],
      [fn |-> "log_likelihood", by |-> "fit", step |-> "store_model"],
      [fn |-> "log_likelihood", by |-> "fit", step |-> "load_model"],
      [fn |-> "log_likelihood", by |-> "fit", step |-> "iadd_model"],
      [fn |-> "log_likelihood", by |-> "fit", step |-> "return_likelihood"],
      [fn |-> "restrict_wavelength", by |-> "calc_chisquare", step |-> "store_lower"],
      [fn |-> "restrict_wavelength", by |-> "calc_chisquare", step |-> "store_upper"],
      [fn |-> "restrict_wavelength", by |-> "calc_chisquare", step |-> "load_lower"],
      [fn |-> "restrict_wavelength", by |-> "calc_chisquare", step |-> "load_upper"]>>

Finished(t) == th[t].pc = Len(Program) + 1

\* thread t is about to execute a step of this kind
AtStep(t, step) ==
    /\ th[t].raised = "none"
    /\ ~Finished(t)
    /\ Program[th[t].pc].step = step

Point(t) == Program[th[t].pc]

\* the bounds the if/elif chain of the method being executed assigns
BoundsOf(pt, s) ==
    IF pt.fn = "calculate_noise" THEN NoiseBounds(s.filter, s.lines)
    ELSE RestrictBounds(s.filter, s.lines)

ThreadFilters == {"SN2", "SN3"}
ThreadAxes == {<<14300, 14500, 15000, 15400, 18600, 19000, 19500, 20750>>}

ThreadStart(f, a) ==
    [pc |-> 1,
     self |-> WindowSession(f, <<"Halpha">>, a),
     min_ |-> Unbound,
     window |-> Unbound,
     noise_window |-> Unbound,
     tmp |-> Unbound,
     likelihood |-> Unbound,
     chi_window |-> Unbound,
     raised |-> "none"]

ThreadsInit ==
    /\ th \in [Threads -> { ThreadStart(f, a) : f \in ThreadFilters, a \in ThreadAxes }]
    /\ model = Unbound
    /\ heap = [t \in Threads |-> Unbound]
    /\ bound_lower = Unbound
    /\ bound_upper = Unbound
    /\ self = <<>> /\ op = "none" /\ ret = <<>>
    /\ raised = "none" /\ trace = <<>> /\ fit_dict = <<>>
    /\ cons = <<>> /\ frames = NoFrames /\ fit_sol = <<>>

singleVars == <<self, op, ret, consVars, sessionVars>>

\* bound_lower = <literal>
StoreLower(t) ==
    /\ AtStep(t, "store_lower")
    /\ LET nb == BoundsOf(Point(t), th[t].self)
       IN  bound_lower' = IF nb = Unbound THEN bound_lower ELSE Bound(nb[1][1])
    /\ th' = [th EXCEPT ![t].pc = @ + 1]
    /\ UNCHANGED <<bound_upper, model, heap, singleVars>>

\* bound_upper = <literal>
StoreUpper(t) ==
    /\ AtStep(t, "store_upper")
    /\ LET nb == BoundsOf(Point(t), th[t].self)
       IN  bound_upper' = IF nb = Unbound THEN bound_upper ELSE Bound(nb[1][2])
    /\ th' = [th EXCEPT ![t].pc = @ + 1]
    /\ UNCHANGED <<bound_lower, model, heap, singleVars>>

\* min_ = np.argmin(np.abs(np.array(self.axis) - bound_lower))
LoadLower(t) ==
    /\ AtStep(t, "load_lower")
    /\ th' = IF bound_lower = Unbound
             THEN [th EXCEPT ![t].raised = "NameError"]
             ELSE [th EXCEPT ![t].min_ =
                                Bound(np_argmin_abs(th[t].self.axis, bound_lower[1])),
                             ![t].pc = @ + 1]
    /\ UNCHANGED <<globalVars, model, heap, singleVars>>

\* max_ = np.argmin(np.abs(np.array(self.axis) - bound_upper)) and what
\* follows it: the slices of restrict_wavelength (and, in the constructor,
\* np.max of the restricted spectrum, line 100), or the standard deviation
\* of calculate_noise
AfterLoadUpper(r, pt, max_) ==
    LET min_ == r.min_[1]
        s    == r.self
    IN  IF pt.fn = "calculate_noise"
        THEN [r EXCEPT
                 !.self.noise = np_nanstd(Slice(s.spectrum_clean.num, min_, max_)),
                 !.noise_window = Bound(<<min_, max_>>),
                 !.pc = @ + 1]
        ELSE LET cut == [s EXCEPT
                           !.spectrum_restricted =
                               SliceNormalized(s.spectrum_normalized, min_, max_),
                           !.axis_restricted = Slice(s.axis, min_, max_)]
             IN  IF pt.by = "__init__"
                 THEN [r EXCEPT
                          !.self = cut,
                          !.window = Bound(<<min_, max_>>),
                          !.raised = IF max_ <= min_ THEN "ValueError" ELSE "none",
                          !.pc = @ + 1]
                 ELSE [r EXCEPT
                          !.self = cut,
                          !.chi_window = Bound(<<min_, max_>>),
                          !.pc = @ + 1]

LoadUpper(t) ==
    /\ AtStep(t, "load_upper")
    /\ th' = IF bound_upper = Unbound
             THEN [th EXCEPT ![t].raised = "NameError"]
             ELSE [th EXCEPT ![t] =
                      AfterLoadUpper(th[t], Point(t),
                                     np_argmin_abs(th[t].self.axis, bound_upper[1]))]
    /\ UNCHANGED <<globalVars, model, heap, singleVars>>

\* model = Gaussian().evaluate(self.axis_restricted, theta, self.line_num):
\* a new array, the curve of this session's theta over its restricted axis
StoreModel(t) ==
    /\ AtStep(t, "store_model")
    /\ heap' = [heap EXCEPT ![t] =
                   Bound([of |-> t, axis |-> th[t].self.axis_restricted,
                          added |-> <<>>])]
    /\ model' = Bound(t)
    /\ th' = [th EXCEPT ![t].pc = @ + 1]
    /\ UNCHANGED <<globalVars, singleVars>>

\* model += theta[-1], first half: the global is loaded
LoadModel(t) ==
    /\ AtStep(t, "load_model")
    /\ th' = [th EXCEPT ![t].tmp = model, ![t].pc = @ + 1]
    /\ UNCHANGED <<globalVars, model, heap, singleVars>>

\* model += theta[-1], second half: the loaded array is added to in place
\* (this session's continuum) and stored back in the global
IaddModel(t) ==
    /\ AtStep(t, "iadd_model")
    /\ LET o == th[t].tmp[1]
       IN  /\ heap' = [heap EXCEPT ![o] =
                          Bound([heap[o][1] EXCEPT !.added = Append(@, t)])]
           /\ model' = Bound(o)
    /\ th' = [th EXCEPT ![t].pc = @ + 1]
    /\ UNCHANGED <<globalVars, singleVars>>

\* return -0.5 * np.sum((self.spectrum_restricted - model) ** 2 / sigma2 + ..):
\* the value is kept as the three arrays it is computed from
ReturnLikelihood(t) ==
    /\ AtStep(t, "return_likelihood")
    /\ th' = [th EXCEPT
                 ![t].likelihood =
                     Bound([spectrum_restricted |-> th[t].self.spectrum_restricted,
                            model |-> heap[model[1]][1],
                            noise |-> th[t].self.noise]),
                 ![t].pc = @ + 1]
    /\ UNCHANGED <<globalVars, model, heap, singleVars>>

ThreadsNext ==
    \E t \in Threads :
        \/ StoreLower(t)
        \/ StoreUpper(t)
        \/ LoadLower(t)
        \/ LoadUpper(t)
        \/ StoreModel(t)
        \/ LoadModel(t)
        \/ IaddModel(t)
        \/ ReturnLikelihood(t)

SpecThreads == ThreadsInit /\ [][ThreadsNext]_vars

----------------------------------------------------------------------------
(* Claims about sessions on separate threads *)

NoGlobals == [bound_lower |-> Unbound, bound_upper |-> Unbound]

\* what the session of thread t obtains when it runs alone, by the methods
\* run one after the other
SoloWindow(t) == restrict_wavelength(th[t].self, NoGlobals)
SoloNoise(t) == calculate_noise(SoloWindow(t).self, SoloWindow(t).globals)
SoloLikelihood(t) ==
    [spectrum_restricted |-> SoloWindow(t).self.spectrum_restricted,
     model |-> [of |-> t, axis |-> SoloWindow(t).self.axis_restricted,
                added |-> <<t>>],
     noise |-> SoloNoise(t).self.noise]

\* C10: under any interleaving of the steps of two sessions on separate
\* threads, the window bounds, the restricted spectrum, the noise estimate
\* and the likelihood value each session obtains are those it obtains when
\* it runs alone (and so none of its calls raises).
C10_SessionsIsolated ==
    \A t \in Threads :
        /\ th[t].raised = "none"
        /\ th[t].window # Unbound =>
               /\ th[t].window[1] = SoloWindow(t).ret
               /\ th[t].pc <= 9 =>
                      th[t].self.spectrum_restricted
                          = SoloWindow(t).self.spectrum_restricted
        /\ th[t].noise_window # Unbound =>
               /\ th[t].noise_window[1] = SoloNoise(t).ret
               /\ th[t].self.noise = SoloNoise(t).self.noise
        /\ th[t].likelihood # Unbound => th[t].likelihood[1] = SoloLikelihood(t)
        /\ th[t].chi_window # Unbound =>
               /\ th[t].chi_window[1] = SoloWindow(t).ret
               /\ th[t].self.spectrum_restricted
                      = SoloWindow(t).self.spectrum_restricted

----------------------------------------------------------------------------
(* Initial values and box bounds: cont_estimate, line_vals_estimate and the *)
(* first part of calculate_params.                                          *)
(* Numbers are kept as exact fractions [num, den] with den > 0: fluxes over *)
(* the maximum of the spectrum they were divided by, positions in whole     *)
(* cm-1 (den 1), widths in thousandths of a cm-1 (den 1000), velocities in  *)
(* whole km/s.                                                              *)

Frac(n, d) == [num |-> n, den |-> d]
Leq(a, b) == a.num * b.den <= b.num * a.den
Minus(a, b) == Frac(a.num * b.den - b.num * a.den, a.den * b.den)
Within(v, lo, hi) == Leq(lo, v) /\ Leq(v, hi)

\* lines 133-138
A_min == Frac(-1, 2)
A_max == Frac(11, 10)
x_min == Frac(0, 1)
x_max == Frac(1000000, 1)
sigma_min == Frac(1, 1000)
sigma_max == Frac(300000, 1000)

\* bounds_l = .. + [0.0], bounds_u = .. + [0.75]
ContinuumBounds == <<Frac(0, 1), Frac(3, 4)>>

\* lines 121-138: the attributes the constructor sets after the group lists
InitPriors(a) ==
    [uncertainty_bool |-> a.uncertainty_bool,
     mdn |-> a.mdn,
     vel_ml |-> 0, broad_ml |-> 0, vel_ml_sigma |-> 0, broad_ml_sigma |-> 0,
     fit_sol |-> [i \in 1..(3 * Len(a.lines) + 1) |-> 0],
     uncertainties |-> [i \in 1..(3 * Len(a.lines) + 1) |-> 0],
     A_min |-> A_min, A_max |-> A_max,
     x_min |-> x_min, x_max |-> x_max,
     sigma_min |-> sigma_min, sigma_max |-> sigma_max]

\* sorted(list), with repetitions
RECURSIVE SortList(_)
SortList(list) ==
    IF list = <<>> THEN <<>>
    ELSE LET k == CHOOSE i \in 1..Len(list) : \A j \in 1..Len(list) : list[i] <= list[j]
         IN  <<list[k]>> \o SortList(SubSeq(list, 1, k - 1) \o SubSeq(list, k + 1, Len(list)))

RECURSIVE SumSeq(_)
SumSeq(list) == IF list = <<>> THEN 0 ELSE Head(list) + SumSeq(Tail(list))

\* twice np.median(list)
Median2(list) ==
    LET t == SortList(list)
        n == Len(list)
    IN  IF n % 2 = 1 THEN 2 * t[(n + 1) \div 2] ELSE t[n \div 2] + t[n \div 2 + 1]

\* one iteration of sigma_clip: a sample stays unless it is farther than
\* sigma times the standard deviation from the median; with n samples of sum
\* S and sum of squares Q, n^2 std^2 = n Q - S^2, so
\* |v - median| > sigma std  <=>  n^2 (2v - 2 median)^2 > 4 sigma^2 (n Q - S^2)
ClipOnce(list, sigma) ==
    LET n == Len(list)
        S == SumSeq(list)
        Q == SumSeq([i \in 1..n |-> list[i] * list[i]])
        kept(v) == n * n * (2 * v - Median2(list)) * (2 * v - Median2(list))
                       <= 4 * sigma * sigma * (n * Q - S * S)
    IN  SelectSeq(list, kept)

\* astrostats.sigma_clip(list, sigma=sigma, masked=False, maxiters=iters):
\* it stops when an iteration rejects nothing
RECURSIVE sigma_clip(_, _, _)
sigma_clip(list, sigma, iters) ==
    IF iters = 0 \/ list = <<>> THEN list
    ELSE LET c == ClipOnce(list, sigma)
         IN  IF c = list THEN list ELSE sigma_clip(c, sigma, iters - 1)

np_min(list) == CHOOSE m \in Range(list) : \A v \in Range(list) : m <= v

\* cont_estimate(sigma_level): the least sample of the clipped restricted
\* spectrum; clipping is the same on the samples before the division
cont_estimate(s, sigma_level) ==
    Frac(np_min(sigma_clip(s.spectrum_restricted.num, sigma_level, 3)),
         s.spectrum_restricted.den)

\* 1e7 / line_theo in cm-1, line_theo being the catalog wavelength in nm;
\* this and the two conversions below are exact to within 1 cm-1 and 1 km/s
RestWavenumber(line_name) == 1000000000 \div (line_dict[line_name] \div 10)

\* line 297: np.abs(3e5 * ((1e7/axis[max_flux] - line_theo) / line_theo))
\*           = 3e5 |1e7/line_theo - axis[max_flux]| / axis[max_flux]
VelocityOf(rest, wavenumber) == (300000 * Abs(rest - wavenumber)) \div wavenumber

\* line 301: 1e7 / ((vel / 3e5) * line_theo + line_theo)
\*           = rest 3e5 / (3e5 + vel) = rest - rest vel / (3e5 + vel)
PositionOf(rest, vel) == rest - ((rest * vel) \div (300000 + vel))

\* np.argmax(list): the first index of the greatest sample
np_argmax(list) ==
    CHOOSE i \in 0..(Len(list) - 1) :
        /\ \A j \in 0..(Len(list) - 1) : At(list, j) <= At(list, i)
        /\ \A j \in 0..(i - 1) : At(list, j) < At(list, i)

\* list[i]: a negative index counts from the end, and only an index outside
\* -len .. len-1 raises IndexError
IndexOK(list, i) == -Len(list) <= i /\ i <= Len(list) - 1

\* lines 303-311: the samples the amplitude estimate is the maximum of, as
\* the indices of the list they are read at.  The nine subscripts
\* line_ind-4 .. line_ind+4 are evaluated; one outside the array raises
\* IndexError, and the bare except then takes the sample at line_ind alone
WindowIndices(list, line_ind) ==
    IF \A d \in -4..4 : IndexOK(list, line_ind + d)
    THEN { IF line_ind + d < 0 THEN Len(list) + line_ind + d ELSE line_ind + d :
               d \in -4..4 }
    ELSE {line_ind}

\* estimate_priors_ML: the prediction p of the network replaces the four
\* estimates; without the distributional output the deviations are 0
estimate_priors_ML(s, p) ==
    IF s.mdn = TRUE
    THEN [s EXCEPT !.vel_ml = p.vel, !.vel_ml_sigma = p.vel_sigma,
                   !.broad_ml = p.broad, !.broad_ml_sigma = p.broad_sigma]
    ELSE [s EXCEPT !.vel_ml = p.vel, !.vel_ml_sigma = 0,
                   !.broad_ml = p.broad, !.broad_ml_sigma = 0]

\* lines 295-300: without a network the velocity is taken from the
\* brightest sample and the broadening is 10 km/s
PriorsWithoutML(s, rest) ==
    IF s.ML_model = "None" \/ s.model_type = ""
    THEN [s EXCEPT
            !.vel_ml = VelocityOf(rest, At(s.axis, np_argmax(s.spectrum_normalized.num))),
            !.broad_ml = 10]
    ELSE s

\* lines 313-318: with mdn the position and width bounds of the session
\* are replaced
MdnBounds(s, rest, line_pos_est) ==
    IF s.mdn = TRUE
    THEN [s EXCEPT
            !.x_min = Frac(PositionOf(rest, s.vel_ml + 3 * s.vel_ml_sigma), 1),
            !.x_max = Frac(PositionOf(rest, s.vel_ml - 3 * s.vel_ml_sigma), 1),
            !.sigma_min =
                Frac((line_pos_est * s.broad_ml) \div 300
                       - (3 * line_pos_est * s.broad_ml_sigma) \div 300, 1000),
            !.sigma_max =
                Frac((line_pos_est * s.broad_ml) \div 300
                       + (3 * line_pos_est * s.broad_ml_sigma) \div 300, 1000)]
    ELSE s

\* np.max of the samples of sn read at the indices used
AmplitudeEstimate(sn, used) ==
    Frac(np_max([k \in 1..Cardinality(used) |-> At(sn.num, SortedSeq(used)[k])]),
         sn.den)

\* lines 303-319, line_ind being known
LineEstimateAt(s, rest, line_pos_est, line_ind, used) ==
    [self |-> MdnBounds(s, rest, line_pos_est),
     ret |-> <<AmplitudeEstimate(s.spectrum_normalized, used),
               Frac(line_pos_est, 1),
               Frac((line_pos_est * s.broad_ml) \div 300, 1000)>>,
     line_ind |-> line_ind,
     used |-> used]

\* lines 301-302
LineEstimateNear(s, rest, line_pos_est, line_ind) ==
    LineEstimateAt(s, rest, line_pos_est, line_ind,
                   WindowIndices(s.spectrum_normalized.num, line_ind))

LineEstimate(s, rest, line_pos_est) ==
    LineEstimateNear(s, rest, line_pos_est, np_argmin_abs(s.axis, line_pos_est))

LineEstimateFrom(s, rest) == LineEstimate(s, rest, PositionOf(rest, s.vel_ml))

\* line_vals_estimate(line_name): the session after the call, the three
\* estimates (amplitude, position, width), the index line_ind it found and
\* the indices of the samples the amplitude is the maximum of
line_vals_estimate(s, line_name) ==
    LineEstimateFrom(PriorsWithoutML(s, RestWavenumber(line_name)),
                     RestWavenumber(line_name))

\* lines 443-451, one pass of the loop: e is what line_vals_estimate
\* returned; the bounds appended are those of the session after the call
InitialStep(v, e) ==
    [self |-> e.self,
     initial |-> v.initial \o <<Minus(e.ret[1], v.continuum), e.ret[2], e.ret[3]>>,
     continuum |-> v.continuum,
     bounds_ |-> v.bounds_ \o
         << <<e.self.A_min, e.self.A_max>>, <<e.self.x_min, e.self.x_max>>,
            <<e.self.sigma_min, e.self.sigma_max>> >>,
     estimates |-> Append(v.estimates,
                          [line_ind |-> e.line_ind, used |-> e.used, ret |-> e.ret])]

RECURSIVE InitialLoop(_, _)
InitialLoop(v, mod) ==
    IF mod = v.self.line_num THEN v
    ELSE InitialLoop(InitialStep(v, line_vals_estimate(v.self, At(v.self.lines, mod))),
                     mod + 1)

\* lines 452-455
InitialFinish(v) ==
    [self |-> v.self,
     initial |-> Append(v.initial, v.continuum),
     bounds |-> Append(v.bounds_, ContinuumBounds),
     estimates |-> v.estimates]

\* lines 439-455 of calculate_params: initial and bounds as they are handed
\* to minimize, the session after the estimates, and what
\* line_vals_estimate returned for each line
InitialValues(s) ==
    InitialFinish(InitialLoop([self |-> s, initial |-> <<>>,
                               continuum |-> cont_estimate(s, 2),
                               bounds_ |-> <<>>, estimates |-> <<>>], 0))

----------------------------------------------------------------------------
(* The numbers of one run of fit(): priors, initial values and bounds, the  *)
(* solution and its uncertainties through the rescaling of calculate_params *)
(* and of fit_Bayes                                                         *)

\* fit_sol[i*3] /= self.spectrum_scale; fit_sol[-1] /= self.spectrum_scale
Descale(x, line_num, scale) ==
    [k \in 1..Len(x) |->
        IF k = Len(x) \/ (k - 1) % 3 = 0 THEN x[k] \div scale ELSE x[k]]

Zeros(n) == [k \in 1..n |-> 0]

\* a variant of HessianUncertainties that leaves self.uncertainties as it
\* is when the Hessian is singular
HessianUncertainties_KeepOnSingular(s, parameters, h) ==
    IF s.uncertainty_bool = TRUE /\ ~h.singular THEN h.sqrt_diag ELSE s.uncertainties

\* lines 464-472: with uncertainty_bool the uncertainties are taken from the
\* inverse of the Hessian h, or are zeros when np.linalg.inv raises
\* LinAlgError for a singular h; without it self.uncertainties is left as
\* it is
HessianUncertainties(s, parameters, h) ==
    IF s.uncertainty_bool = TRUE
    THEN IF h.singular THEN Zeros(Len(parameters)) ELSE h.sqrt_diag
    ELSE s.uncertainties

\* lines 460-480: minimize returns x on the normalized scale; uncertainties;
\* the rescaling; self.fit_sol
SolveAndRescale(s, x, h) ==
    LET u == HessianUncertainties(s, x, h)
    IN  [s EXCEPT !.uncertainties = Rescale(u, s.line_num, s.spectrum_scale),
                  !.fit_sol = Rescale(x, s.line_num, s.spectrum_scale)]

\* fit_Bayes: self.fit_sol is brought back to the normalized scale to start
\* the walkers (lines 549-551), the sampler returns the medians med and the
\* deviations std of its chain, and both are rescaled (lines 589-598)
fit_Bayes(s, med, std) ==
    [start |-> Descale(s.fit_sol, s.line_num, s.spectrum_scale),
     self |-> [s EXCEPT
                 !.fit_sol = Rescale(med, s.line_num, s.spectrum_scale),
                 !.uncertainties = Rescale(std, s.line_num, s.spectrum_scale)]]

\* the longest spectrum of the runs
MaxSamples == 9

ParamLengths == {6, MaxSamples}

\* axes of n samples 100 cm-1 apart
ParamAxis(start, n) == [i \in 1..n |-> start + 100 * (i - 1)]

\* a spectrum of n samples at the level base with one sample at peak
ParamSpectrum(n, at, base, peak) == [i \in 1..n |-> IF i = at THEN peak ELSE base]

ParamArgs ==
    { [spectrum |-> ParamSpectrum(n, at, lv[1], lv[2]),
       axis |-> ParamAxis(start, n),
       model_type |-> "gaussian",
       lines |-> l,
       vel_rel |-> [i \in 1..Len(l) |-> 1],
       sigma_rel |-> [i \in 1..Len(l) |-> 1],
       ML_model |-> ml, filter |-> "SN3", bayes_bool |-> b,
       uncertainty_bool |-> ub, mdn |-> md] :
        n \in ParamLengths, at \in 1..MaxSamples, start \in {14300, 14800, 15200},
        lv \in {<<1, 4>>, <<4, 5>>},
        l \in {<<"Halpha">>, <<"Halpha", "NII6583">>},
        ml \in {"None", "keras_model"},
        b \in BOOLEAN, ub \in BOOLEAN, md \in BOOLEAN }

\* what the network predicts: velocity and broadening in km/s with their
\* deviations
Predictions ==
    { [vel |-> 0, vel_sigma |-> 20, broad |-> 10, broad_sigma |-> 2],
      [vel |-> 600, vel_sigma |-> 0, broad |-> 50, broad_sigma |-> 0] }

NoPrediction == [vel |-> 0, vel_sigma |-> 0, broad |-> 0, broad_sigma |-> 0]

\* the point minimize returns, the medians of the sampler's chain, and the
\* uncertainties either of them comes with, on the normalized scale
SolutionOf(n) == ParamVector([i \in 1..n |-> 15000], [i \in 1..n |-> 2])
MedianOf(n) == ParamVector([i \in 1..n |-> 15010], [i \in 1..n |-> 3])
Hessians(n) ==
    { [singular |-> TRUE, sqrt_diag |-> <<>>],
      [singular |-> FALSE, sqrt_diag |-> [k \in 1..(3 * n + 1) |-> 1]] }
ChainDeviations(n) == [k \in 1..(3 * n + 1) |-> 2]

NoRun == <<>>

ParamsInit ==
    /\ \E a \in ParamArgs :
           LET m == Fit__init__(a, NoGlobals)
           IN  /\ m.raised = "none"
               /\ self = m.self @@ InitPriors(a)
               /\ bound_lower = m.globals.bound_lower
               /\ bound_upper = m.globals.bound_upper
               /\ trace = m.trace
    /\ op = "__init__"
    /\ raised = "none"
    /\ ret = NoRun
    /\ fit_dict = <<>>
    /\ cons = <<>> /\ frames = NoFrames /\ fit_sol = <<>>
    /\ NoThreads

\* lines 503-509
ParamsPrior(s, p) ==
    IF s.ML_model # "None"
    THEN estimate_priors_ML([s EXCEPT !.spectrum_scale = np_max(s.spectrum)], p)
    ELSE [s EXCEPT !.spectrum_scale = np_max(s.spectrum)]

\* the numbers of a run: what calculate_params handed to minimize, the
\* session's solution and uncertainties before the run, after
\* calculate_params (s2), and after fit_Bayes (fb) if it runs
RunNumbers(s, iv, h, s2, fb) ==
    [initial |-> iv.initial,
     bounds |-> iv.bounds,
     estimates |-> iv.estimates,
     hessian |-> h,
     before |-> [fit_sol |-> s.fit_sol, uncertainties |-> s.uncertainties],
     solved |-> [fit_sol |-> s2.fit_sol, uncertainties |-> s2.uncertainties],
     start |-> IF s.bayes_bool = TRUE THEN fb.start ELSE <<>>,
     self |-> IF s.bayes_bool = TRUE THEN fb.self ELSE s2]

RunSolved(s, iv, h, s2) ==
    RunNumbers(s, iv, h, s2,
               fit_Bayes(s2, MedianOf(s.line_num), ChainDeviations(s.line_num)))

RunInitial(s, iv, h) ==
    RunSolved(s, iv, h, SolveAndRescale(iv.self, SolutionOf(s.line_num), h))

\* lines 503-514 on session s when the network predicts p and the Hessian
\* at the solution is h
ParamsRun(s, p, h) == RunInitial(s, InitialValues(ParamsPrior(s, p)), h)

\* the session after the run r, the window being the one calc_chisquare
\* looked up again (m)
ParamsDone(r, m) ==
    /\ self' = [r.self EXCEPT
                  !.spectrum_restricted = m.self.spectrum_restricted,
                  !.axis_restricted = m.self.axis_restricted]
    /\ fit_sol' = r.self.fit_sol
    /\ ret' = [initial |-> r.initial, bounds |-> r.bounds,
               estimates |-> r.estimates, hessian |-> r.hessian,
               before |-> r.before, solved |-> r.solved, start |-> r.start,
               fit_uncertainties |-> r.self.uncertainties]
    /\ bound_lower' = m.globals.bound_lower
    /\ bound_upper' = m.globals.bound_upper
    /\ raised' = m.raised
    /\ trace' = m.trace

\* a caller calling fit() on the session: the network predicts p, the
\* Hessian at the solution is h; ret keeps the numbers of the run
ParamsFit ==
    /\ op \in {"__init__", "fit"}
    /\ raised = "none"
    /\ LastRun < MaxFits
    /\ \E p \in IF self.ML_model # "None" THEN Predictions ELSE {NoPrediction},
          h \in IF self.uncertainty_bool THEN Hessians(self.line_num)
                ELSE {[singular |-> FALSE, sqrt_diag |-> <<>>]} :
           ParamsDone(ParamsRun(self, p, h),
                      FitRun([self |-> self, globals |-> Globals,
                              raised |-> "none", trace |-> trace], LastRun + 1))
    /\ op' = "fit"
    /\ fit_dict' = FitDict
    /\ UNCHANGED <<cons, frames, threadVars>>

ParamsNext == ParamsFit

SpecParams == ParamsInit /\ [][ParamsNext]_vars

----------------------------------------------------------------------------
(* Claims about the initial values, the bounds and the solution *)

ParamCount == 3 * self.line_num + 1

\* C11: the initial vector calculate_params builds has 3*line_num+1
\* entries and lies inside the bounds handed to the solver with it: every
\* amplitude guess in [A_min, A_max], position guess in [x_min, x_max],
\* width guess in [sigma_min, sigma_max], continuum guess in [0, 0.75].
C11_InitialInsideBounds ==
    op = "fit" =>
        /\ Len(ret.initial) = ParamCount
        /\ Len(ret.bounds) = ParamCount
        /\ \A k \in 1..ParamCount :
               Within(ret.initial[k], ret.bounds[k][1], ret.bounds[k][2])

\* C12: for the index k nearest the estimated position, the amplitude
\* estimate is the maximum of the normalized spectrum over exactly the
\* samples k-4 .. k+4 when all nine lie inside the spectrum, and the sample
\* at k alone otherwise; no sample farther than 4 positions from k is used.
C12_AmplitudeWindow ==
    op = "fit" =>
        \A i \in 1..Len(ret.estimates) :
            LET e == ret.estimates[i]
                k == e.line_ind
                inside == 4 <= k /\ k <= Len(self.spectrum) - 5
            IN  /\ e.used = (IF inside THEN (k - 4)..(k + 4) ELSE {k})
                /\ \A j \in e.used : Abs(j - k) <= 4
                /\ ~inside =>
                       e.ret[1] = Frac(At(self.spectrum_normalized.num, k),
                                       self.spectrum_normalized.den)

\* C13: the position and width bounds of a line differ from the defaults
\* (position [0, 1e6], width [0.001, 300]) only when a network was supplied
\* and mdn is set, and then they enclose the position and width guesses; in
\* every other configuration the defaults are kept.
C13_BoundsNarrowedOnlyByML ==
    op = "fit" =>
        \A i \in 0..(self.line_num - 1) :
            IF self.ML_model # "None" /\ self.mdn = TRUE
            THEN /\ Within(ret.initial[3 * i + 2],
                           ret.bounds[3 * i + 2][1], ret.bounds[3 * i + 2][2])
                 /\ Within(ret.initial[3 * i + 3],
                           ret.bounds[3 * i + 3][1], ret.bounds[3 * i + 3][2])
            ELSE /\ ret.bounds[3 * i + 2] = <<x_min, x_max>>
                 /\ ret.bounds[3 * i + 3] = <<sigma_min, sigma_max>>

\* v is norm with exactly the amplitudes (indices 3i) and the continuum
\* (last index) multiplied once by the spectrum scale
ScaledOnce(v, norm) ==
    /\ Len(v) = Len(norm)
    /\ \A k \in 1..Len(v) :
           v[k] = IF k = Len(v) \/ (k - 1) % 3 = 0
                  THEN norm[k] * self.spectrum_scale ELSE norm[k]

\* the uncertainties calculate_params estimated in the run, on the
\* normalized scale
EstimatedUncertainties ==
    IF ret.hessian.singular THEN Zeros(ParamCount) ELSE ret.hessian.sqrt_diag

\* the solution part of C14, and the uncertainties fit_Bayes leaves
SolutionScaledOnce ==
    /\ ScaledOnce(ret.solved.fit_sol, SolutionOf(self.line_num))
    /\ self.bayes_bool = TRUE =>
           /\ ret.start = SolutionOf(self.line_num)
           /\ ScaledOnce(self.fit_sol, MedianOf(self.line_num))
           /\ ScaledOnce(ret.fit_uncertainties, ChainDeviations(self.line_num))
    /\ self.bayes_bool # TRUE =>
           /\ self.fit_sol = ret.solved.fit_sol
           /\ ret.fit_uncertainties = ret.solved.uncertainties

\* C14 as claimed: after the rescaling of calculate_params, and again after
\* the de-scale / re-scale pair of fit_Bayes, exactly the amplitude entries
\* and the continuum entry of the solution and of the uncertainty vector
\* have been multiplied by the spectrum scale once in all: an uncertainty
\* vector the session already held on the flux scale is not multiplied again.
C14_ScaledExactlyOnce ==
    op = "fit" =>
        /\ SolutionScaledOnce
        /\ IF self.uncertainty_bool = TRUE
           THEN ScaledOnce(ret.solved.uncertainties, EstimatedUncertainties)
           ELSE ret.solved.uncertainties = ret.before.uncertainties

\* C14 as amended: the same for the solution, for the uncertainties
\* calculate_params estimates in the run (uncertainty_bool) and for those
\* fit_Bayes leaves; without uncertainty_bool calculate_params multiplies
\* the amplitude and continuum entries of the vector the session held
\* before the run by the scale once more.
C14_ScaledOncePerRescaling ==
    op = "fit" =>
        /\ SolutionScaledOnce
        /\ IF self.uncertainty_bool = TRUE
           THEN ScaledOnce(ret.solved.uncertainties, EstimatedUncertainties)
           ELSE ScaledOnce(ret.solved.uncertainties, ret.before.uncertainties)

\* C14's case: a second run with Bayesian refinement and without
\* uncertainty_bool, the session holding the deviations of the first run
C14_Witness ==
    /\ op = "fit" /\ LastRun = 2
    /\ self.bayes_bool = TRUE /\ self.uncertainty_bool # TRUE
    /\ self.spectrum_scale > 1
    /\ ret.before.uncertainties[1] # 0
    /\ ret.before.fit_sol[2] = 15010

\* C15: when uncertainty_bool is set and the Hessian at the solution is
\* singular, calculate_params raises nothing and leaves all 3*line_num+1
\* uncertainties zero; without uncertainty_bool and without Bayesian
\* refinement the uncertainties fit() reports are all zero.
C15_ZeroUncertainties ==
    op = "fit" =>
        /\ (self.uncertainty_bool = TRUE /\ ret.hessian.singular) =>
               /\ raised = "none"
               /\ ret.solved.uncertainties = Zeros(ParamCount)
        /\ (self.uncertainty_bool # TRUE /\ self.bayes_bool # TRUE) =>
               ret.fit_uncertainties = Zeros(ParamCount)

\* C15's case: the Hessian is singular in a run of a session that held
\* non-zero uncertainties from the run before
C15_Witness ==
    /\ op = "fit" /\ LastRun = 2
    /\ self.uncertainty_bool = TRUE /\ ret.hessian.singular
    /\ ret.before.uncertainties[1] # 0
    /\ ret.solved.uncertainties = Zeros(ParamCount)

----------------------------------------------------------------------------
(* apply_transmission.  Fluxes are fractions; a transmission is kept in     *)
(* tenths, so 5 is 0.5.                                                     *)

\* v / (t / 10); a zero t raises ZeroDivisionError
Divide(v, t) == IF t = 0 THEN "ZeroDivisionError" ELSE Frac(v.num * 10, v.den * t)

\* a variant of apply_transmission that also divides at exactly 0.5
apply_transmission_FromHalf(s) ==
    [s EXCEPT !.spectrum =
        [i \in 1..Len(s.spectrum) |->
            IF s.trans_filter[i] >= 5 THEN Divide(s.spectrum[i], s.trans_filter[i])
            ELSE s.spectrum[i]]]

\* self.spectrum = [self.spectrum[i]/self.trans_filter[i]
\*                  if self.trans_filter[i] > 0.5 else self.spectrum[i]
\*                  for i in range(len(self.spectrum))]
apply_transmission(s) ==
    [s EXCEPT !.spectrum =
        [i \in 1..Len(s.spectrum) |->
            IF s.trans_filter[i] > 5 THEN Divide(s.spectrum[i], s.trans_filter[i])
            ELSE s.spectrum[i]]]

\* the longest spectrum a transmission curve is applied to
MaxCurveLen == 3

\* transmissions 0, 0.4, 0.5, 0.6 and 1
Transmissions == {0, 4, 5, 6, 10}

\* spectra with a transmission curve interpolated on the same axis, of the
\* same length or with samples to spare
TransmissionSessions ==
    { [spectrum |-> sp, trans_filter |-> tf] :
        sp \in UNION { [1..n -> {Frac(1, 1), Frac(3, 1)}] : n \in 1..MaxCurveLen },
        tf \in UNION { [1..n -> Transmissions] : n \in 1..MaxCurveLen } }

TransmissionInit ==
    /\ self \in { s \in TransmissionSessions : Len(s.trans_filter) >= Len(s.spectrum) }
    /\ op = "none"
    /\ ret = <<>>
    /\ bound_lower = Unbound /\ bound_upper = Unbound
    /\ raised = "none" /\ trace = <<>> /\ fit_dict = <<>>
    /\ cons = <<>> /\ frames = NoFrames /\ fit_sol = <<>>
    /\ NoThreads

\* the constructor calling self.apply_transmission() (line 93); ret keeps
\* the spectrum as it was
CallApplyTransmission ==
    /\ op = "none"
    /\ self' = apply_transmission(self)
    /\ ret' = self.spectrum
    /\ op' = "apply_transmission"
    /\ UNCHANGED <<consVars, globalVars, sessionVars, threadVars>>

TransmissionNext == CallApplyTransmission

SpecTransmission == TransmissionInit /\ [][TransmissionNext]_vars

----------------------------------------------------------------------------
(* Claims about apply_transmission *)

\* C16: apply_transmission leaves a spectrum as long as its input in which
\* the value at every index i is spectrum[i]/transmission[i] when
\* transmission[i] > 0.5 and spectrum[i] itself when transmission[i] <= 0.5,
\* 0.5 included; nothing is divided by a transmission of 0.5 or less.
C16_TransmissionApplied ==
    op = "apply_transmission" =>
        /\ Len(self.spectrum) = Len(ret)
        /\ \A i \in 1..Len(ret) :
               /\ self.trans_filter[i] > 5 =>
                      self.spectrum[i].num * ret[i].den * self.trans_filter[i]
                          = ret[i].num * 10 * self.spectrum[i].den
               /\ self.trans_filter[i] <= 5 => self.spectrum[i] = ret[i]

\* C16's case: one sample at a transmission of exactly 0.5, one above it
C16_Witness ==
    /\ op = "apply_transmission"
    /\ \E i, j \in 1..Len(ret) :
           /\ self.trans_filter[i] = 5 /\ self.spectrum[i] = ret[i]
           /\ self.trans_filter[j] = 6 /\ self.spectrum[j] # ret[j]

----------------------------------------------------------------------------
(* The constructor on the axes of the window runs: the fit window of line   *)
(* 98 and the noise window of line 115 of one session                       *)

BandArgs ==
    { [spectrum |-> Ramp(Len(a)), axis |-> a, model_type |-> "gaussian",
       lines |-> l, vel_rel |-> <<1>>, sigma_rel |-> <<1>>,
       ML_model |-> "None", filter |-> f, bayes_bool |-> FALSE] :
        a \in Axes, l \in WindowLines, f \in Filters }

BandInit ==
    /\ self = <<>>
    /\ op = "none"
    /\ ret = <<>>
    /\ bound_lower = Unbound /\ bound_upper = Unbound
    /\ raised = "none" /\ trace = <<>> /\ fit_dict = <<>>
    /\ cons = <<>> /\ frames = NoFrames /\ fit_sol = <<>>
    /\ NoThreads

\* a caller constructing a session in a fresh process
ConstructBand ==
    /\ op = "none"
    /\ \E a \in BandArgs :
           LET m == Fit__init__(a, Globals)
           IN  /\ self' = m.self
               /\ bound_lower' = m.globals.bound_lower
               /\ bound_upper' = m.globals.bound_upper
               /\ raised' = m.raised
               /\ trace' = m.trace
    /\ op' = "__init__"
    /\ UNCHANGED <<ret, consVars, fit_dict, threadVars>>

BandNext == ConstructBand

SpecBand == BandInit /\ [][BandNext]_vars

----------------------------------------------------------------------------
(* Claims about the two windows of a session *)

\* the samples of the ramp are distinct, so a sample names its index
NoiseSamples == Range(self.noise.of)
FitSamples == Range(self.spectrum_restricted.num)

\* C17: for every supported filter and every strictly increasing axis, the
\* index range calculate_noise takes the noise over is disjoint from the
\* index range restrict_wavelength selects for the fit: no sample is used
\* both in the noise standard deviation and in the restricted fit window.
C17_NoiseDisjointFromFit ==
    (op = "__init__" /\ Supported(self) /\ self.noise # DefaultNoise) =>
        NoiseSamples \cap FitSamples = {}

\* C17's case: both windows hold samples, and they meet at the shared bound
C17_Witness ==
    /\ op = "__init__" /\ raised = "none" /\ Supported(self)
    /\ self.noise # DefaultNoise
    /\ NoiseSamples # {} /\ FitSamples # {}
    /\ \E v \in NoiseSamples : v + 1 \in FitSamples

----------------------------------------------------------------------------
(* Claims about the order of the constructor *)

NumericalSteps ==
    {"spectrum_clean", "spectrum_normalized", "restrict_wavelength",
     "spectrum_restricted_norm", "calculate_correction", "calculate_noise",
     "calc_sinc_width"}

\* C18: the validation of line names, model type and group-list lengths
\* completes before any numerical work: for an invalid configuration the
\* constructor reports the validation failure without having run the
\* normalization, the window restriction, the correction factor or the
\* noise computation, and no other error is raised ahead of it.
C18_ValidationBeforeNumerics ==
    (/\ op = "__init__"
     /\ ~(LinesInCatalog(self.args) /\ ModelSupported(self.args)
          /\ LengthsMatch(self.args))) =>
        /\ raised \in CheckExceptions
        /\ \A i \in 1..Len(trace) : trace[i].step \notin NumericalSteps
====
